---- MODULE Spec2Model ----
(***************************************************************************)
(* Message-descriptor extraction plugin (src/src/index.js).                *)
(*                                                                         *)
(* The host traversal calls Program.enter, then JSXOpeningElement and      *)
(* CallExpression once per node in tree order, then Program.exit.  A throw *)
(* inside a callback unwinds the traversal of that unit.  Every callback   *)
(* is one action; the nodes it is called with are drawn from finite sets.  *)
(***************************************************************************)
EXTENDS Naturals, Sequences, FiniteSets

VARIABLES
    opts,       \* [Units -> Opts]: state.opts, the plugin options of the unit
    reactIntl,  \* [Units -> [defined, messages]]: state.reactIntl; messages is
                \*   the Map in insertion order, a sequence of descriptors
    metadata,   \* [Units -> [attached, messages]]: file.metadata['react-intl']
    files,      \* [Units -> [written, content]]: the catalog file of the unit
    pc,         \* [Units -> "idle" | "visiting" | "aborted" | "done"]
    error,      \* [Units -> the error the unit's traversal threw, or NoError]
    last,       \* [Units -> record of the last callback: its node and outcome]
    order,      \* [Units -> ids in the order of their first successful store]
    own         \* [Units -> the descriptors the unit's own usages stored]

vars == <<opts, reactIntl, metadata, files, pc, error, last, order, own>>

(***************************************************************************)
(* Bounds of the model.                                                    *)
(***************************************************************************)
MaxAttrs == 3       \* attributes of one markup element
MaxMessages == 2    \* property values of one defineMessages() argument

Units == {"u1", "u2"}

(***************************************************************************)
(* JavaScript values.  Property values are strings or undefined.           *)
(***************************************************************************)
Undefined == "<undefined>"

Truthy(v) == v # Undefined /\ v # ""

SeqsUpTo(S, n) == UNION {[1..k -> S] : k \in 0..n}

Range(s) == {s[i] : i \in 1..Len(s)}

(***************************************************************************)
(* Constants of the module, lines 17-31.                                   *)
(***************************************************************************)
COMPONENT_NAMES == {"FormattedMessage", "FormattedHTMLMessage", "Msg", "HtmlMsg"}

FUNCTION_NAMES == {"defineMessages", "msgs"}

DESCRIPTOR_PROPS == {"id", "description", "defaultMessage"}

INVALID_VALUE == "<Symbol()>"

(***************************************************************************)
(* Errors thrown by the callbacks, named after their message texts.        *)
(***************************************************************************)
NoError == "none"
ErrRequire == "Message Descriptors require an id and defaultMessage."
ErrDuplicate == "Duplicate message id"
ErrDescription == "Message must have a description."
ErrParse == "Message failed to parse."
ErrParseJSX == "Message failed to parse. Wrap with {}."
ErrShape == "must be called with an object expression"
ErrNoDefault == "Message is missing a defaultMessage."

(***************************************************************************)
(* Options.  A list option is either absent or a set of names.             *)
(***************************************************************************)
Absent == [given |-> FALSE, names |-> {}]

Given(names) == [given |-> TRUE, names |-> names]

getModuleSourceNames(o) ==
    IF o.moduleSourceNames.given THEN o.moduleSourceNames.names ELSE {"react-intl"}

getComponentNames(o) ==
    IF o.componentNames.given THEN o.componentNames.names ELSE COMPONENT_NAMES

getFunctionNames(o) ==
    IF o.functionNames.given THEN o.functionNames.names ELSE FUNCTION_NAMES

(***************************************************************************)
(* The message-syntax collaborator ./print-icu-message: parses the text    *)
(* and prints it back in normal form, or throws on invalid syntax.         *)
(***************************************************************************)
ICUParses(text) == text \notin {"{bad", "\\{bad", "\\\\{bad"}

\* value.indexOf('\\\\') >= 0: the text holds two consecutive backslashes
hasBackslashes(text) == text \in {"\\\\{bad", "a\\\\b"}

printICUMessage(text) ==
    IF text = "Hi { name }" THEN "Hi {name}" ELSE text

(***************************************************************************)
(* Nodes.  evaluate is the collaborator's path.evaluate(): a confidence    *)
(* flag and a value.                                                       *)
(***************************************************************************)
NotConfident == [confident |-> FALSE, value |-> Undefined]

Confident(v) == [confident |-> TRUE, value |-> v]

JSXIdentifier(n) == [type |-> "JSXIdentifier", name |-> n, evaluate |-> NotConfident]

Identifier(n) == [type |-> "Identifier", name |-> n, evaluate |-> NotConfident]

StringLiteral(v) == [type |-> "StringLiteral", evaluate |-> Confident(v)]

\* an expression the evaluator cannot fold, e.g. a call or a free variable
Dynamic == [type |-> "CallExpression", evaluate |-> NotConfident]

\* a namespaced attribute name, ns:name, which the evaluator cannot fold
JSXNamespacedName(n) == [type |-> "JSXNamespacedName", name |-> n,
                         evaluate |-> NotConfident]

JSXExpressionContainer(e) == [type |-> "JSXExpressionContainer",
                              evaluate |-> NotConfident, expression |-> e]

\* a literal test that also takes an expression container for a literal
isLiteralOrContainer(path) ==
    path.type \in {"StringLiteral", "TemplateLiteral", "JSXExpressionContainer"}

isLiteral(path) == path.type \in {"StringLiteral", "TemplateLiteral"}

getMessageDescriptorKey(path) ==
    IF path.type \in {"Identifier", "JSXIdentifier"}
    THEN [value |-> path.name, warns |-> 0]
    ELSE IF path.evaluate.confident
         THEN [value |-> path.evaluate.value, warns |-> 0]
         ELSE [value |-> INVALID_VALUE, warns |-> 1]

\* a value getter that hands undefined on for a value it cannot fold
getMessageDescriptorValueUndefined(path) ==
    LET p == IF path.type = "JSXExpressionContainer" THEN path.expression ELSE path
    IN  IF p.evaluate.confident
        THEN [value |-> p.evaluate.value, warns |-> 0]
        ELSE [value |-> Undefined, warns |-> 1]

getMessageDescriptorValue(path) ==
    LET p == IF path.type = "JSXExpressionContainer" THEN path.expression ELSE path
    IN  IF p.evaluate.confident
        THEN [value |-> p.evaluate.value, warns |-> 0]
        ELSE [value |-> INVALID_VALUE, warns |-> 1]

EmptyHash == [id |-> Undefined, description |-> Undefined, defaultMessage |-> Undefined]

\* a reduce step that evaluates the value before it looks at the key
reduceStepEvaluatesFirst(acc, pair, isJSXSource) ==
    LET key == getMessageDescriptorKey(pair[1])
        val == getMessageDescriptorValue(pair[2])
    IN  IF val.value = INVALID_VALUE
        THEN [acc EXCEPT !.warns = @ + key.warns + val.warns]
        ELSE IF key.value \notin DESCRIPTOR_PROPS
        THEN [acc EXCEPT !.warns = @ + key.warns]
        ELSE IF key.value = "defaultMessage"
        THEN IF ICUParses(val.value)
             THEN [acc EXCEPT !.hash.defaultMessage = printICUMessage(val.value)]
             ELSE IF isJSXSource /\ isLiteral(pair[2]) /\ hasBackslashes(val.value)
                  THEN [acc EXCEPT !.err = ErrParseJSX]
                  ELSE [acc EXCEPT !.err = ErrParse]
        ELSE [acc EXCEPT !.hash[key.value] = val.value]

\* one step of the reduce of createMessageDescriptor (lines 87-128)
reduceStep(acc, pair, isJSXSource) ==
    LET key == getMessageDescriptorKey(pair[1])
        val == getMessageDescriptorValue(pair[2])
    IN  IF key.value \notin DESCRIPTOR_PROPS
        THEN [acc EXCEPT !.warns = @ + key.warns]
        ELSE IF val.value = INVALID_VALUE
        THEN [acc EXCEPT !.warns = @ + val.warns]
        ELSE IF key.value = "defaultMessage"
        THEN IF ICUParses(val.value)
             THEN [acc EXCEPT !.hash.defaultMessage = printICUMessage(val.value)]
             ELSE IF isJSXSource /\ isLiteral(pair[2]) /\ hasBackslashes(val.value)
                  THEN [acc EXCEPT !.err = ErrParseJSX]
                  ELSE [acc EXCEPT !.err = ErrParse]
        ELSE [acc EXCEPT !.hash[key.value] = val.value]

RECURSIVE reduceFrom(_, _, _, _)
reduceFrom(propPaths, i, acc, isJSXSource) ==
    IF i > Len(propPaths) \/ acc.err # NoError
    THEN acc
    ELSE reduceFrom(propPaths, i + 1, reduceStep(acc, propPaths[i], isJSXSource),
                    isJSXSource)

createMessageDescriptor(propPaths, isJSXSource) ==
    reduceFrom(propPaths, 1, [hash |-> EmptyHash, err |-> NoError, warns |-> 0],
               isJSXSource)

(***************************************************************************)
(* The registry: a Map keyed by id, kept as a sequence in insertion order. *)
(***************************************************************************)
MapHas(m, id) == \E i \in 1..Len(m) : m[i].id = id

MapGet(m, id) == m[CHOOSE i \in 1..Len(m) : m[i].id = id]

\* a set that adds a second entry for a key the map holds
MapSetAppends(m, id, d) == Append(m, d)

\* a set that moves the entry of a key the map holds to the end
MapSetMovesLast(m, id, d) ==
    Append(SelectSeq(m, LAMBDA e : e.id # id), d)

MapSet(m, id, d) ==
    IF MapHas(m, id)
    THEN [i \in 1..Len(m) |-> IF m[i].id = id THEN d ELSE m[i]]
    ELSE Append(m, d)

\* a completeness test that is content with either field
lacksEitherField(d) == ~(Truthy(d.id) \/ Truthy(d.defaultMessage))

\* line 141: !(id && defaultMessage)
lacksRequired(d) == ~(Truthy(d.id) /\ Truthy(d.defaultMessage))

\* a comparison that leaves the description out
differsInMessage(d, existing) == d.defaultMessage # existing.defaultMessage

\* lines 150-151
differs(d, existing) ==
    \/ d.description # existing.description
    \/ d.defaultMessage # existing.defaultMessage

\* a description test that ignores the option
neverLacksDescription(d, o) == FALSE

\* line 160: opts.enforceDescriptions && !description
lacksDescription(d, o) == o.enforceDescriptions /\ ~Truthy(d.description)

storeMessage(d, o, messages) ==
    IF lacksRequired(d)
    THEN [err |-> ErrRequire, messages |-> messages]
    ELSE IF MapHas(messages, d.id) /\ differs(d, MapGet(messages, d.id))
    THEN [err |-> ErrDuplicate, messages |-> messages]
    ELSE IF lacksDescription(d, o)
    THEN [err |-> ErrDescription, messages |-> messages]
    ELSE [err |-> NoError,
          messages |-> MapSet(messages, d.id,
                              [id |-> d.id, description |-> d.description,
                               defaultMessage |-> d.defaultMessage])]

(***************************************************************************)
(* Marker matching.  binding is what the identifier resolves to: the       *)
(* module source and imported name of an import, or NoBinding.             *)
(***************************************************************************)
NoBinding == [source |-> "", imported |-> ""]

Import(mod, name) == [source |-> mod, imported |-> name]

pathReferencesImport(path, mod, name) == path.binding = Import(mod, name)

referencesImport(path, mods, importedNames) ==
    IF path.type \notin {"Identifier", "JSXIdentifier"}
    THEN FALSE
    ELSE \E name \in importedNames : \E mod \in mods :
            pathReferencesImport(path, mod, name)

(***************************************************************************)
(* JSXOpeningElement(path, state), lines 228-272.  The result holds the    *)
(* registry after the callback, the error thrown (NoError if none), the    *)
(* number of warnings, the descriptor built and the descriptors stored.    *)
(***************************************************************************)
isJSXAttribute(attr) == attr.type = "JSXAttribute"

\* a check that sends every descriptor built to the registry
alwaysChecked(descriptor) == TRUE

\* line 268: if (descriptor.defaultMessage)
hasDefaultMessage(descriptor) == Truthy(descriptor.defaultMessage)

Untouched(messages) ==
    [messages |-> messages, err |-> NoError, warns |-> 0, matched |-> FALSE,
     hash |-> EmptyHash, stored |-> <<>>]

\* a plural list that names no component
NoPluralNames == {}

\* line 238: ['FormattedPlural']
PLURAL_NAMES == {"FormattedPlural"}

visitJSXOpeningElement(path, o, messages) ==
    LET moduleSourceNames == getModuleSourceNames(o)
        name == path.name
    IN  IF referencesImport(name, moduleSourceNames, PLURAL_NAMES)
        THEN [Untouched(messages) EXCEPT !.warns = 1]
        ELSE IF referencesImport(name, moduleSourceNames, COMPONENT_NAMES)
        THEN LET attributes == SelectSeq(path.attributes, isJSXAttribute)
                 built == createMessageDescriptor(
                              [i \in 1..Len(attributes) |->
                                  <<attributes[i].name, attributes[i].value>>], TRUE)
                 descriptor == built.hash
                 base == [Untouched(messages) EXCEPT !.matched = TRUE,
                                                    !.warns = built.warns,
                                                    !.hash = descriptor]
             IN  IF built.err # NoError
                 THEN [base EXCEPT !.err = built.err]
                 ELSE IF hasDefaultMessage(descriptor)
                 THEN LET r == storeMessage(descriptor, o, messages)
                      IN  [base EXCEPT !.err = r.err, !.messages = r.messages,
                                       !.stored = IF r.err = NoError
                                                  THEN <<descriptor>> ELSE <<>>]
                 ELSE base
        ELSE Untouched(messages)

(***************************************************************************)
(* CallExpression(path, state), lines 275-321.                             *)
(***************************************************************************)
isObjectExpression(node) == node.type = "ObjectExpression"

ObjectExpression(properties) == [type |-> "ObjectExpression",
                                 evaluate |-> NotConfident,
                                 properties |-> properties]

ObjectProperty(key, value) == [type |-> "ObjectProperty", key |-> key, value |-> value]

\* a processMessageObject that passes over a value that is no object expression
processMessageObjectSkips(acc, messageObj, o) ==
    IF acc.err # NoError \/ ~isObjectExpression(messageObj)
    THEN acc
    ELSE LET properties == messageObj.properties
             built == createMessageDescriptor(
                          [i \in 1..Len(properties) |->
                              <<properties[i].key, properties[i].value>>], FALSE)
             descriptor == built.hash
             seen == [acc EXCEPT !.warns = @ + built.warns, !.hash = descriptor]
         IN  IF built.err # NoError
             THEN [seen EXCEPT !.err = built.err]
             ELSE IF ~Truthy(descriptor.defaultMessage)
             THEN [seen EXCEPT !.err = ErrNoDefault]
             ELSE LET r == storeMessage(descriptor, o, acc.messages)
                  IN  [seen EXCEPT !.err = r.err, !.messages = r.messages,
                                   !.stored = IF r.err = NoError
                                              THEN Append(@, descriptor) ELSE @]

\* a test that finds a default message in every descriptor
neverLacksDefaultMessage(descriptor) == FALSE

\* line 302: if (!descriptor.defaultMessage)
lacksDefaultMessage(descriptor) == ~Truthy(descriptor.defaultMessage)

\* processMessageObject, lines 290-309, applied to the result so far; a throw
\* of an earlier value ends the forEach
processMessageObject(acc, messageObj, o) ==
    IF acc.err # NoError
    THEN acc
    ELSE IF ~isObjectExpression(messageObj)
    THEN [acc EXCEPT !.err = ErrShape]
    ELSE LET properties == messageObj.properties
             built == createMessageDescriptor(
                          [i \in 1..Len(properties) |->
                              <<properties[i].key, properties[i].value>>], FALSE)
             descriptor == built.hash
             seen == [acc EXCEPT !.warns = @ + built.warns, !.hash = descriptor]
         IN  IF built.err # NoError
             THEN [seen EXCEPT !.err = built.err]
             ELSE IF lacksDefaultMessage(descriptor)
             THEN [seen EXCEPT !.err = ErrNoDefault]
             ELSE LET r == storeMessage(descriptor, o, acc.messages)
                  IN  [seen EXCEPT !.err = r.err, !.messages = r.messages,
                                   !.stored = IF r.err = NoError
                                              THEN Append(@, descriptor) ELSE @]

RECURSIVE forEachMessageObject(_, _, _, _)
forEachMessageObject(values, i, acc, o) ==
    IF i > Len(values)
    THEN acc
    ELSE forEachMessageObject(values, i + 1, processMessageObject(acc, values[i], o), o)

visitCallExpression(path, o, messages) ==
    LET moduleSourceNames == getModuleSourceNames(o)
        callee == path.callee
    IN  IF referencesImport(callee, moduleSourceNames, FUNCTION_NAMES)
        THEN LET args == path.arguments
                 base == [Untouched(messages) EXCEPT !.matched = TRUE]
             IN  IF Len(args) = 0 \/ ~isObjectExpression(args[1])
                 THEN [base EXCEPT !.err = ErrShape]
                 ELSE LET messagesObj == args[1]
                          values == [i \in 1..Len(messagesObj.properties) |->
                                        messagesObj.properties[i].value]
                      IN  forEachMessageObject(values, 1, base, o)
        ELSE Untouched(messages)

(***************************************************************************)
(* Program.exit, lines 190-225.  JSON.stringify leaves out the properties  *)
(* whose value is undefined.                                               *)
(***************************************************************************)
JSONObject(d) ==
    IF d.description = Undefined
    THEN [id |-> d.id, defaultMessage |-> d.defaultMessage]
    ELSE [id |-> d.id, description |-> d.description,
          defaultMessage |-> d.defaultMessage]

JSONStringify(descriptors) == [i \in 1..Len(descriptors) |-> JSONObject(descriptors[i])]

MapValues(m) == m

(***************************************************************************)
(* The nodes the callbacks are called with.                                *)
(***************************************************************************)
JSXAttribute(k, v) == [type |-> "JSXAttribute", name |-> JSXIdentifier(k), value |-> v]

JSXSpreadAttribute == [type |-> "JSXSpreadAttribute"]

Attrs ==
    { JSXAttribute("id", StringLiteral("a")),
      JSXAttribute("id", StringLiteral("b")),
      JSXAttribute("description", StringLiteral("d1")),
      JSXAttribute("defaultMessage", StringLiteral("Hello")),
      JSXAttribute("defaultMessage", StringLiteral("Hi { name }")) }

\* spread attributes, and attributes with invalid, empty, non-constant or
\* unrecognized parts
EdgeAttrs ==
    { JSXSpreadAttribute,
      JSXAttribute("defaultMessage", StringLiteral("{bad")),
      JSXAttribute("id", StringLiteral("")),
      JSXAttribute("description", StringLiteral("")),
      JSXAttribute("defaultMessage", StringLiteral("")),
      JSXAttribute("id", JSXExpressionContainer(Dynamic)),
      JSXAttribute("defaultMessage", JSXExpressionContainer(Dynamic)),
      JSXAttribute("values", JSXExpressionContainer(Dynamic)) }

AttrLists ==
    SeqsUpTo(Attrs, MaxAttrs)
    \cup {<<e>> : e \in EdgeAttrs}
    \cup {<<e, a>> : e \in EdgeAttrs, a \in Attrs}
    \cup {<<a, e>> : e \in EdgeAttrs, a \in Attrs}

SampleAttrLists ==
    { <<>>,
      <<JSXAttribute("id", StringLiteral("a")),
        JSXAttribute("defaultMessage", StringLiteral("Hello"))>>,
      <<JSXAttribute("defaultMessage", StringLiteral("{bad"))>> }

Tag(type, binding) == [type |-> type, binding |-> binding]

FormattedMessageTag == Tag("JSXIdentifier", Import("react-intl", "FormattedMessage"))

OtherTags ==
    { Tag("JSXIdentifier", Import("react-intl", "FormattedPlural")),
      Tag("JSXIdentifier", Import("react-intl", "MyMsg")),
      Tag("JSXIdentifier", Import("my-intl", "HtmlMsg")),
      Tag("JSXIdentifier", NoBinding),
      Tag("JSXMemberExpression", NoBinding) }

JSXElement(name, attributes) == [name |-> name, attributes |-> attributes]

JSXNodes ==
    {JSXElement(FormattedMessageTag, a) : a \in AttrLists}
    \cup {JSXElement(t, a) : t \in OtherTags, a \in SampleAttrLists}

\* a descriptor object literal with the given fields, Undefined for a field left out
DescriptorObject(id, description, defaultMessage) ==
    ObjectExpression(
        (IF id = Undefined THEN <<>>
         ELSE <<ObjectProperty(Identifier("id"), StringLiteral(id))>>)
        \o (IF description = Undefined THEN <<>>
            ELSE <<ObjectProperty(Identifier("description"), StringLiteral(description))>>)
        \o (IF defaultMessage = Undefined THEN <<>>
            ELSE <<ObjectProperty(Identifier("defaultMessage"),
                                  StringLiteral(defaultMessage))>>))

MessageValues ==
    { DescriptorObject("a", Undefined, "Hello"),
      DescriptorObject("a", Undefined, "Hi { name }"),
      DescriptorObject("b", Undefined, "Hello"),
      DescriptorObject("a", "d1", "Hello"),
      DescriptorObject(Undefined, Undefined, "Hello"),
      DescriptorObject("a", Undefined, Undefined),
      DescriptorObject("b", Undefined, "{bad"),
      StringLiteral("Hello") }

Callee(type, binding) == [type |-> type, binding |-> binding]

DefineMessagesCallee == Callee("Identifier", Import("react-intl", "defineMessages"))

OtherCallees ==
    { Callee("Identifier", Import("react-intl", "myMsgs")),
      Callee("Identifier", Import("my-intl", "msgs")),
      Callee("Identifier", NoBinding),
      Callee("MemberExpression", NoBinding) }

Call(callee, arguments) == [callee |-> callee, arguments |-> arguments]

MessagesObject(values) ==
    ObjectExpression([i \in 1..Len(values) |->
                         ObjectProperty(Identifier("key"), values[i])])

ArgumentLists ==
    {<<>>, <<StringLiteral("Hello")>>}
    \cup {<<MessagesObject(v)>> : v \in SeqsUpTo(MessageValues, MaxMessages)}

SampleArguments ==
    { <<>>,
      <<MessagesObject(<<DescriptorObject("a", Undefined, "Hello")>>)>> }

CallNodes ==
    {Call(DefineMessagesCallee, a) : a \in ArgumentLists}
    \cup {Call(c, a) : c \in OtherCallees, a \in SampleArguments}

(***************************************************************************)
(* What a node declares, read off the node itself.                         *)
(***************************************************************************)
\* the descriptor properties the attributes resolve: a recognized key with a
\* value the evaluator is confident of
ResolvedProps(path) ==
    {k \in DESCRIPTOR_PROPS :
        \E i \in 1..Len(path.attributes) :
            /\ isJSXAttribute(path.attributes[i])
            /\ getMessageDescriptorKey(path.attributes[i].name).value = k
            /\ getMessageDescriptorValue(path.attributes[i].value).value # INVALID_VALUE}

HasDefaultMessageAttr(path) ==
    \E i \in 1..Len(path.attributes) :
        /\ isJSXAttribute(path.attributes[i])
        /\ path.attributes[i].name.name = "defaultMessage"

\* the key resolves to a name that is no descriptor property
IsOtherKey(key) ==
    getMessageDescriptorKey(key).value \notin DESCRIPTOR_PROPS \cup {INVALID_VALUE}

\* a markup node has an attribute, a call node a descriptor object with a
\* property, whose key is no descriptor property and whose value the
\* evaluator cannot fold
HasOtherAttr(path) ==
    \E i \in 1..Len(path.attributes) :
        /\ isJSXAttribute(path.attributes[i])
        /\ IsOtherKey(path.attributes[i].name)
        /\ getMessageDescriptorValue(path.attributes[i].value).value = INVALID_VALUE

HasOtherProperty(path) ==
    /\ Len(path.arguments) > 0
    /\ isObjectExpression(path.arguments[1])
    /\ \E i \in 1..Len(path.arguments[1].properties) :
          LET obj == path.arguments[1].properties[i].value
          IN  /\ isObjectExpression(obj)
              /\ \E j \in 1..Len(obj.properties) :
                    /\ IsOtherKey(obj.properties[j].key)
                    /\ getMessageDescriptorValue(obj.properties[j].value).value
                           = INVALID_VALUE

(***************************************************************************)
(* State and actions.                                                      *)
(***************************************************************************)
\* last: the last node callback of the unit.
\*   kind      "jsx" or "call" ("none" before the first)
\*   matched   the node was taken for a marker
\*   listed    its identifier is an import, from a configured module source,
\*             of a name in the configured component (function) names
\*   err       the error thrown, warns the number of warnings
\*   resolved  ResolvedProps of a markup node
\*   props     the properties of the descriptor built that are non-empty
\*   dmAttr    HasDefaultMessageAttr of a markup node
\*   others    HasOtherAttr of a markup node, HasOtherProperty of a call node
\*   again     position in the registry of an id stored once more, 0 if none
\*   changed   the callback changed the registry
NoCallback ==
    [kind |-> "none", matched |-> FALSE, listed |-> FALSE, err |-> NoError,
     warns |-> 0, resolved |-> {}, props |-> {}, dmAttr |-> FALSE,
     others |-> FALSE, again |-> 0,
     changed |-> FALSE]

RECURSIVE AppendNew(_, _)
AppendNew(ids, stored) ==
    IF stored = <<>>
    THEN ids
    ELSE AppendNew(IF Head(stored).id \in Range(ids) THEN ids
                   ELSE Append(ids, Head(stored).id),
                   Tail(stored))

\* position of the first descriptor of stored whose id the registry held, or 0
StoredAgain(messages, stored) ==
    LET hits == {j \in 1..Len(messages) :
                    \E i \in 1..Len(stored) : stored[i].id = messages[j].id}
    IN  IF hits = {} THEN 0 ELSE CHOOSE j \in hits : \A k \in hits : j <= k

Options(mods, components, functions, enforce, dir) ==
    [moduleSourceNames |-> mods, componentNames |-> components,
     functionNames |-> functions, enforceDescriptions |-> enforce, messagesDir |-> dir]

OptsDefaults ==
    {Options(Absent, Absent, Absent, e, d) : e \in BOOLEAN, d \in {Undefined, "msgs"}}

InitWith(optsSet) ==
    /\ opts \in [Units -> optsSet]
    /\ opts["u1"] = opts["u2"]
    /\ reactIntl = [u \in Units |-> [defined |-> FALSE, messages |-> <<>>]]
    /\ metadata = [u \in Units |-> [attached |-> FALSE, messages |-> <<>>]]
    /\ files = [u \in Units |-> [written |-> FALSE, content |-> <<>>]]
    /\ pc = [u \in Units |-> "idle"]
    /\ error = [u \in Units |-> NoError]
    /\ last = [u \in Units |-> NoCallback]
    /\ order = [u \in Units |-> <<>>]
    /\ own = [u \in Units |-> {}]

Init == InitWith(OptsDefaults)

\* an enter that takes over the registry another unit has filled, as a
\* registry kept by the plugin and not by the unit would be
ProgramEnterKeepsRegistry(u) ==
    /\ pc[u] = "idle"
    /\ pc' = [pc EXCEPT ![u] = "visiting"]
    /\ reactIntl' = [reactIntl EXCEPT ![u] =
                        [defined |-> TRUE,
                         messages |-> reactIntl[CHOOSE v \in Units : v # u].messages]]
    /\ UNCHANGED <<opts, metadata, files, error, last, order, own>>

\* Program.enter, lines 184-188
ProgramEnter(u) ==
    /\ pc[u] = "idle"
    /\ pc' = [pc EXCEPT ![u] = "visiting"]
    /\ reactIntl' = [reactIntl EXCEPT ![u] = [defined |-> TRUE, messages |-> <<>>]]
    /\ UNCHANGED <<opts, metadata, files, error, last, order, own>>

\* the effect of a node callback with result r: it returns, or it throws and
\* the traversal of the unit ends (pcThrown)
Callback(u, kind, r, node, pcThrown) ==
    /\ reactIntl' = [reactIntl EXCEPT ![u].messages = r.messages]
    /\ pc' = [pc EXCEPT ![u] = IF r.err = NoError THEN "visiting" ELSE pcThrown]
    /\ error' = [error EXCEPT ![u] = r.err]
    /\ last' = [last EXCEPT ![u] =
                   [kind |-> kind, matched |-> r.matched, listed |-> node.listed,
                    err |-> r.err, warns |-> r.warns, resolved |-> node.resolved,
                    props |-> {k \in DESCRIPTOR_PROPS : Truthy(r.hash[k])},
                    dmAttr |-> node.dmAttr, others |-> node.others,
                    again |-> StoredAgain(reactIntl[u].messages, r.stored),
                    changed |-> r.messages # reactIntl[u].messages]]
    /\ order' = [order EXCEPT ![u] = AppendNew(@, r.stored)]
    /\ own' = [own EXCEPT ![u] = @ \cup Range(r.stored)]
    /\ UNCHANGED <<opts, metadata, files>>

JSXNodeFacts(path, o) ==
    [listed |-> referencesImport(path.name, getModuleSourceNames(o), getComponentNames(o)),
     resolved |-> ResolvedProps(path), dmAttr |-> HasDefaultMessageAttr(path),
     others |-> HasOtherAttr(path)]

CallNodeFacts(path, o) ==
    [listed |-> referencesImport(path.callee, getModuleSourceNames(o), getFunctionNames(o)),
     resolved |-> {}, dmAttr |-> FALSE, others |-> HasOtherProperty(path)]

\* a callback whose error is reported but does not end the traversal
JSXOpeningElementContinues(u, path) ==
    /\ pc[u] = "visiting"
    /\ Callback(u, "jsx", visitJSXOpeningElement(path, opts[u], reactIntl[u].messages),
                JSXNodeFacts(path, opts[u]), "visiting")

JSXOpeningElement(u, path) ==
    /\ pc[u] = "visiting"
    /\ Callback(u, "jsx", visitJSXOpeningElement(path, opts[u], reactIntl[u].messages),
                JSXNodeFacts(path, opts[u]), "aborted")

CallExpression(u, path) ==
    /\ pc[u] = "visiting"
    /\ Callback(u, "call", visitCallExpression(path, opts[u], reactIntl[u].messages),
                CallNodeFacts(path, opts[u]), "aborted")

\* an exit that writes the catalog also when no descriptor was extracted
ProgramExitWritesEmpty(u) ==
    /\ pc[u] = "visiting"
    /\ LET descriptors == MapValues(reactIntl[u].messages)
       IN  /\ metadata' = [metadata EXCEPT ![u] =
                              [attached |-> TRUE, messages |-> descriptors]]
           /\ files' = IF Truthy(opts[u].messagesDir)
                       THEN [files EXCEPT ![u] =
                                [written |-> TRUE,
                                 content |-> JSONStringify(descriptors)]]
                       ELSE files
    /\ pc' = [pc EXCEPT ![u] = "done"]
    /\ UNCHANGED <<opts, reactIntl, error, last, order, own>>

ProgramExit(u) ==
    /\ pc[u] = "visiting"
    /\ LET descriptors == MapValues(reactIntl[u].messages)
       IN  /\ metadata' = [metadata EXCEPT ![u] =
                              [attached |-> TRUE, messages |-> descriptors]]
           /\ files' = IF Truthy(opts[u].messagesDir) /\ Len(descriptors) > 0
                       THEN [files EXCEPT ![u] =
                                [written |-> TRUE,
                                 content |-> JSONStringify(descriptors)]]
                       ELSE files
    /\ pc' = [pc EXCEPT ![u] = "done"]
    /\ UNCHANGED <<opts, reactIntl, error, last, order, own>>

NextOf(units, jsxNodes, callNodes) ==
    \E u \in units :
        \/ ProgramEnter(u)
        \/ \E path \in jsxNodes : JSXOpeningElement(u, path)
        \/ \E path \in callNodes : CallExpression(u, path)
        \/ ProgramExit(u)

\* one unit, the built-in marker names
Next == NextOf({"u1"}, JSXNodes, CallNodes)

Spec == Init /\ [][Next]_vars

(***************************************************************************)
(* One unit under options that override the module sources and the marker  *)
(* names and set the output directory (the empty string included),         *)
(* visiting every kind of tag and callee.                                  *)
(***************************************************************************)
OptsOverrides ==
    {Options(m, c, f, FALSE, d) :
        d \in {Undefined, "", "msgs"},
        m \in {Absent, Given({"my-intl"})},
        c \in {Absent, Given({"MyMsg"})},
        f \in {Absent, Given({"myMsgs"})}}

TagsCfg ==
    {Tag("JSXIdentifier", Import(m, n)) :
        m \in {"react-intl", "my-intl"},
        n \in {"FormattedMessage", "MyMsg", "FormattedPlural"}}
    \cup {Tag("JSXIdentifier", NoBinding), Tag("JSXMemberExpression", NoBinding)}

CalleesCfg ==
    {Callee("Identifier", Import(m, n)) :
        m \in {"react-intl", "my-intl"}, n \in {"defineMessages", "myMsgs"}}
    \cup {Callee("Identifier", NoBinding), Callee("MemberExpression", NoBinding)}

AttrListsCfg ==
    SampleAttrLists
    \cup { <<JSXAttribute("id", StringLiteral("b")),
             JSXAttribute("defaultMessage", StringLiteral("Hi { name }")),
             JSXAttribute("description", StringLiteral("d1"))>> }

JSXNodesCfg == {JSXElement(t, a) : t \in TagsCfg, a \in AttrListsCfg}

CallNodesCfg ==
    {Call(c, a) : c \in CalleesCfg,
                  a \in SampleArguments
                        \cup {<<MessagesObject(<<DescriptorObject("b", "d1", "Hello")>>)>>}}

InitCfg == InitWith(OptsOverrides)

NextCfg == NextOf({"u1"}, JSXNodesCfg, CallNodesCfg)

SpecCfg == InitCfg /\ [][NextCfg]_vars

(***************************************************************************)
(* One unit visiting marker usages whose key/value pairs are constant,     *)
(* non-constant, unrecognized or rejected by the message syntax, as        *)
(* attributes of a markup marker and as properties of a descriptor object. *)
(***************************************************************************)
MaxPairs == 3

\* a JSX attribute with a namespaced name
JSXNamespacedAttribute(k, v) ==
    [type |-> "JSXAttribute", name |-> JSXNamespacedName(k), value |-> v]

PairAttrs ==
    { JSXAttribute("id", StringLiteral("a")),
      JSXAttribute("defaultMessage", StringLiteral("Hello")),
      JSXAttribute("id", JSXExpressionContainer(Dynamic)),
      JSXAttribute("defaultMessage", JSXExpressionContainer(Dynamic)),
      JSXNamespacedAttribute("id", StringLiteral("b")),
      JSXAttribute("values", JSXExpressionContainer(Dynamic)) }

\* an unrecognized attribute with a constant value, and default messages
\* the syntax rejects or that hold backslashes, as a literal and inside an
\* expression container
SyntaxAttrs ==
    { JSXAttribute("values", StringLiteral("x")),
      JSXAttribute("defaultMessage", StringLiteral("{bad")),
      JSXAttribute("defaultMessage", StringLiteral("\\\\{bad")),
      JSXAttribute("defaultMessage", JSXExpressionContainer(StringLiteral("\\\\{bad"))),
      JSXAttribute("defaultMessage", StringLiteral("\\{bad")),
      JSXAttribute("defaultMessage", JSXExpressionContainer(StringLiteral("{bad"))),
      JSXAttribute("defaultMessage", StringLiteral("a\\\\b")) }

PairAttrLists ==
    SeqsUpTo(PairAttrs, MaxPairs)
    \cup {<<e>> : e \in SyntaxAttrs}
    \cup {<<a, e>> : a \in PairAttrs, e \in SyntaxAttrs}
    \cup {<<e, a>> : a \in PairAttrs, e \in SyntaxAttrs}

JSXNodesPairs == {JSXElement(FormattedMessageTag, a) : a \in PairAttrLists}

\* properties of a descriptor object: the key an identifier, a string
\* literal or a computed key the evaluator cannot fold
PairProps ==
    { ObjectProperty(Identifier("id"), StringLiteral("a")),
      ObjectProperty(StringLiteral("defaultMessage"), StringLiteral("Hello")),
      ObjectProperty(Identifier("id"), Dynamic),
      ObjectProperty(Identifier("defaultMessage"), Dynamic),
      ObjectProperty(Dynamic, StringLiteral("b")),
      ObjectProperty(Identifier("values"), Dynamic) }

\* an empty default message, and default messages the syntax rejects or
\* that hold backslashes
SyntaxProps ==
    { ObjectProperty(Identifier("defaultMessage"), StringLiteral("")),
      ObjectProperty(Identifier("defaultMessage"), StringLiteral("{bad")),
      ObjectProperty(Identifier("defaultMessage"), StringLiteral("\\\\{bad")),
      ObjectProperty(Identifier("defaultMessage"), StringLiteral("\\{bad")),
      ObjectProperty(Identifier("defaultMessage"), StringLiteral("a\\\\b")) }

PairPropLists ==
    SeqsUpTo(PairProps, MaxPairs)
    \cup {<<e>> : e \in SyntaxProps}
    \cup {<<a, e>> : a \in PairProps, e \in SyntaxProps}
    \cup {<<e, a>> : a \in PairProps, e \in SyntaxProps}

\* the property lists of a descriptor object that follows another one
SecondPropLists ==
    {<<>>, <<ObjectProperty(Identifier("id"), StringLiteral("a")),
             ObjectProperty(Identifier("defaultMessage"), StringLiteral("Hello"))>>}
    \cup {<<a>> : a \in PairProps \cup SyntaxProps}
    \cup {<<ObjectProperty(Identifier("id"), StringLiteral("a")), e>> : e \in SyntaxProps}

\* the calls: one descriptor object, alone or after one that is stored as c
CallNodesPairs ==
    {Call(DefineMessagesCallee, <<MessagesObject(<<ObjectExpression(p)>>)>>) :
        p \in PairPropLists}
    \cup {Call(DefineMessagesCallee,
               <<MessagesObject(<<DescriptorObject("c", Undefined, "Hello"),
                                  ObjectExpression(p)>>)>>) :
            p \in SecondPropLists}

InitPairs == InitWith({Options(Absent, Absent, Absent, FALSE, Undefined)})

NextPairs == NextOf({"u1"}, JSXNodesPairs, CallNodesPairs)

SpecPairs == InitPairs /\ [][NextPairs]_vars

(***************************************************************************)
(* Two units whose callbacks interleave: each unit has its own state       *)
(* object, on which Program.enter sets a new registry.                     *)
(***************************************************************************)
JSXNodesUnits ==
    {JSXElement(FormattedMessageTag, a) :
        a \in { <<JSXAttribute("id", StringLiteral("a")),
                  JSXAttribute("defaultMessage", StringLiteral("Hello"))>>,
                <<JSXAttribute("id", StringLiteral("a")),
                  JSXAttribute("defaultMessage", StringLiteral("Hi { name }"))>>,
                <<JSXAttribute("id", StringLiteral("b")),
                  JSXAttribute("defaultMessage", StringLiteral("Hello"))>> }}

CallNodesUnits ==
    {Call(DefineMessagesCallee, <<MessagesObject(v)>>) :
        v \in { <<DescriptorObject("a", "d1", "Hello")>>,
                <<DescriptorObject("b", Undefined, "Hello"),
                  DescriptorObject("a", Undefined, "Hello")>> }}

InitUnits == InitWith({Options(Absent, Absent, Absent, FALSE, "msgs")})

NextUnits == NextOf(Units, JSXNodesUnits, CallNodesUnits)

SpecUnits == InitUnits /\ [][NextUnits]_vars

(***************************************************************************)
(* Properties.                                                             *)
(***************************************************************************)
Messages(u) == reactIntl[u].messages

EntriesOf(m, id) == {i \in 1..Len(m) : m[i].id = id}

Ids(m) == [i \in 1..Len(m) |-> m[i].id]

\* descriptors as storeMessage may be handed them
Descriptors ==
    [id : {Undefined, "", "a", "b"},
     description : {Undefined, "", "d1", "d2"},
     defaultMessage : {Undefined, "", "Hello", "Hi {name}", "Bye"}]

CompleteDescriptors ==
    {d \in Descriptors : Truthy(d.id) /\ Truthy(d.defaultMessage)}

\* C1: storing once more a descriptor the registry holds, with the same id,
\* description and defaultMessage, raises no error and leaves the registry as
\* it was: one entry for the id, the same contents, the same number of entries.
C1_IdempotentReRegistration ==
    \A u \in Units : \A i \in 1..Len(Messages(u)) :
        LET d == Messages(u)[i]
            r == storeMessage(d, opts[u], Messages(u))
        IN  /\ r.err = NoError
            /\ Cardinality(EntriesOf(r.messages, d.id)) = 1
            /\ Len(r.messages) = Len(Messages(u))
            /\ r.messages = Messages(u)

\* a callback stored the first id once more while the registry held two ids
C1_Witness ==
    \E u \in Units :
        /\ last[u].again = 1
        /\ last[u].err = NoError
        /\ Len(Messages(u)) = 2

\* C2: a complete descriptor with the id of a stored one but another
\* description or defaultMessage is refused with the duplicate-id error, under
\* every configuration and whatever other ids the registry holds.
C2_ConflictDetected ==
    \A u \in Units : \A i \in 1..Len(Messages(u)) : \A d2 \in CompleteDescriptors :
        LET d1 == Messages(u)[i]
            r == storeMessage(d2, opts[u], Messages(u))
        IN  (d2.id = d1.id /\ (d2.description # d1.description
                               \/ d2.defaultMessage # d1.defaultMessage))
            => (r.err = ErrDuplicate /\ r.messages = Messages(u))

\* a usage differing only in its description from the first of two stored
\* ids was refused as a duplicate
C2_Witness ==
    \E u \in Units :
        /\ error[u] = ErrDuplicate
        /\ Len(Messages(u)) = 2
        /\ last[u].props = DESCRIPTOR_PROPS
        /\ Messages(u)[1].description = Undefined

\* C3: a descriptor without id or without defaultMessage (absent or empty) is
\* refused with the missing-field error, whatever enforceDescriptions is and
\* whatever the registry holds.
C3_IncompleteRefused ==
    \A u \in Units : \A d \in Descriptors :
        (~Truthy(d.id) \/ ~Truthy(d.defaultMessage))
        => LET r == storeMessage(d, opts[u], Messages(u))
           IN  r.err = ErrRequire /\ r.messages = Messages(u)

\* a usage with a defaultMessage and no id was refused, the registry not empty
C3_Witness ==
    \E u \in Units :
        /\ error[u] = ErrRequire
        /\ "id" \notin last[u].props
        /\ Len(Messages(u)) > 0

\* C4: with enforceDescriptions on, a descriptor with id and defaultMessage
\* but an empty or absent description is refused; with it off, the same
\* descriptor under an id not yet stored is accepted and added.
C4_DescriptionEnforcement ==
    \A u \in Units : \A d \in CompleteDescriptors :
        ~Truthy(d.description)
        => LET r == storeMessage(d, opts[u], Messages(u))
           IN  /\ opts[u].enforceDescriptions => (r.err # NoError /\ r.messages = Messages(u))
               /\ (~opts[u].enforceDescriptions /\ ~MapHas(Messages(u), d.id))
                  => (r.err = NoError /\ r.messages = Append(Messages(u), d))

\* a usage with id and defaultMessage and no description was refused for its
\* missing description
C4_Witness ==
    \E u \in Units :
        /\ opts[u].enforceDescriptions
        /\ error[u] = ErrDescription
        /\ last[u].props = {"id", "defaultMessage"}

\* C5: at unit exit the emitted sequence lists every stored id once, in the
\* order of the first successful store of each id; storing an earlier id once
\* more does not move it.
C5_OrderPreserved ==
    \A u \in Units :
        /\ metadata[u].attached => Ids(metadata[u].messages) = order[u]
        /\ files[u].written => Ids(files[u].content) = order[u]
        /\ \A i, j \in 1..Len(order[u]) : order[u][i] = order[u][j] => i = j

\* a unit exited after its last callback stored the first of two ids once more
C5_Witness ==
    \E u \in Units :
        /\ pc[u] = "done"
        /\ metadata[u].attached
        /\ Len(order[u]) = 2
        /\ last[u].again = 1

\* C6: a unit one of whose callbacks raised an error stops there: nothing is
\* attached to its metadata and no catalog is written, whatever the registry
\* already holds.
C6_FailStop ==
    \A u \in Units :
        error[u] # NoError
        => /\ pc[u] = "aborted"
           /\ ~metadata[u].attached
           /\ ~files[u].written

\* a function call stored its first descriptor and raised on the second
C6_Witness ==
    \E u \in Units :
        /\ error[u] # NoError
        /\ last[u].kind = "call"
        /\ last[u].changed
        /\ Truthy(opts[u].messagesDir)

JSONGet(object, k) == IF k \in DOMAIN object THEN object[k] ELSE Undefined

\* C7: every exit attaches the registry's descriptors to the metadata, also
\* when there are none and when no output directory is set; the catalog is
\* written exactly when an output directory is set and there is a descriptor,
\* and holds the sequence attached.
C7_EmissionAtExit ==
    \A u \in Units :
        /\ pc[u] = "done" => (metadata[u].attached
                              /\ metadata[u].messages = Messages(u))
        /\ files[u].written <=> (/\ pc[u] = "done"
                                 /\ Truthy(opts[u].messagesDir)
                                 /\ Len(metadata[u].messages) > 0)
        /\ files[u].written
           => /\ Len(files[u].content) = Len(metadata[u].messages)
              /\ \A i \in 1..Len(files[u].content) : \A k \in DESCRIPTOR_PROPS :
                    JSONGet(files[u].content[i], k) = metadata[u].messages[i][k]

\* a unit with an output directory exited with two descriptors
C7_Witness ==
    \E u \in Units :
        /\ pc[u] = "done"
        /\ files[u].written
        /\ Len(files[u].content) = 2

\* C8: a node is taken for a marker exactly when its identifier is an import,
\* from a configured module source, of a name in the configured component
\* (function) names: a name of an overriding list is extracted, a built-in
\* name an overriding list leaves out is not.
C8_MarkersFollowConfiguration ==
    \A u \in Units :
        last[u].kind \in {"jsx", "call"} => (last[u].matched <=> last[u].listed)

\* C9 as claimed: a markup marker usage that resolves none of id, description,
\* defaultMessage raises no error; one that resolves some of them but not id,
\* or not defaultMessage, raises an error.
C9_PartialDeclarationFails ==
    \A u \in Units :
        (last[u].kind = "jsx" /\ last[u].matched)
        => /\ last[u].resolved = {} => last[u].err = NoError
           /\ (last[u].resolved # {} /\ ~({"id", "defaultMessage"} \subseteq last[u].resolved))
              => last[u].err # NoError

\* C9 as the code has it: a markup marker usage that resolves no
\* defaultMessage raises no error, also when it resolves id or description;
\* one that yields a non-empty defaultMessage and no non-empty id raises an
\* error.
C9_DefaultMessageDecides ==
    \A u \in Units :
        (last[u].kind = "jsx" /\ last[u].matched)
        => /\ "defaultMessage" \notin last[u].resolved => last[u].err = NoError
           /\ ("defaultMessage" \in last[u].props /\ "id" \notin last[u].props)
              => last[u].err # NoError

\* a markup usage that resolves only its id went through without error
C9_Witness ==
    \E u \in Units :
        /\ last[u].kind = "jsx"
        /\ last[u].matched
        /\ last[u].resolved = {"id"}
        /\ last[u].err = NoError

\* C10: a markup marker usage without a defaultMessage attribute (spread
\* attributes only, or other attributes) raises no error and leaves the
\* registry as it was.
C10_NoDefaultMessageSkipped ==
    \A u \in Units :
        (last[u].kind = "jsx" /\ last[u].matched /\ ~last[u].dmAttr)
        => (last[u].err = NoError /\ ~last[u].changed)

\* a markup usage with id and description and no defaultMessage attribute
\* was visited while the registry held an entry
C10_Witness ==
    \E u \in Units :
        /\ last[u].kind = "jsx"
        /\ last[u].matched
        /\ ~last[u].dmAttr
        /\ last[u].resolved = {"id", "description"}
        /\ Len(Messages(u)) > 0

(***************************************************************************)
(* C11. A FormattedPlural tag imported from a configured module source     *)
(* gives exactly one warning, throws nothing and leaves the registry as    *)
(* it was, whatever its attributes are: a default message that does not    *)
(* parse, a descriptor without id, or an id the registry holds with        *)
(* another default message.                                                *)
(***************************************************************************)
IsFormattedPlural(path, o) ==
    /\ path.name.type = "JSXIdentifier"
    /\ path.name.binding # NoBinding
    /\ path.name.binding.imported = "FormattedPlural"
    /\ path.name.binding.source \in getModuleSourceNames(o)

C11_PluralWarnsOnly ==
    \A u \in Units :
        pc[u] = "visiting" =>
            \A path \in JSXNodesCfg :
                IsFormattedPlural(path, opts[u]) =>
                    LET r == visitJSXOpeningElement(path, opts[u], Messages(u))
                    IN  /\ r.warns = 1
                        /\ r.err = NoError
                        /\ r.messages = Messages(u)
                        /\ r.stored = <<>>

\* a FormattedPlural tag was visited whose attributes declare id b with
\* another default message than the registry holds for b: one warning, no
\* error, the entry as it was
C11_Witness ==
    /\ pc["u1"] = "visiting"
    /\ last["u1"].kind = "jsx"
    /\ ~last["u1"].matched
    /\ last["u1"].warns = 1
    /\ last["u1"].err = NoError
    /\ ~last["u1"].changed
    /\ last["u1"].resolved = DESCRIPTOR_PROPS
    /\ \E i \in 1..Len(Messages("u1")) :
          Messages("u1")[i].id = "b" /\ Messages("u1")[i].defaultMessage = "Hello"

(***************************************************************************)
(* C12. A call of a function marker whose first argument is missing or is  *)
(* no object expression throws the shape error.  The values of the         *)
(* argument object are processed in source order.                          *)
(***************************************************************************)
IsMarkerCall(path) == path.callee = DefineMessagesCallee

HasMessagesObject(path) ==
    Len(path.arguments) > 0 /\ isObjectExpression(path.arguments[1])

ValuesOf(path) ==
    [i \in 1..Len(path.arguments[1].properties) |->
        path.arguments[1].properties[i].value]

\* position of the first value that is no object expression, 0 if there is none
FirstNonObject(values) ==
    LET at == {i \in 1..Len(values) : ~isObjectExpression(values[i])}
    IN  IF at = {} THEN 0 ELSE CHOOSE i \in at : \A j \in at : i <= j

\* the call with only the first n values of its argument object
CutAfter(path, n) == Call(path.callee, <<MessagesObject(SubSeq(ValuesOf(path), 1, n))>>)

\* C12 as claimed: the call throws the shape error whenever its first
\* argument is missing or no object expression, and whenever any value of
\* the argument object is no object expression
C12_ShapeErrorForAnyValue ==
    \A u \in Units :
        pc[u] = "visiting" =>
            \A path \in CallNodes :
                IsMarkerCall(path) =>
                    LET r == visitCallExpression(path, opts[u], Messages(u))
                    IN  IF ~HasMessagesObject(path)
                        THEN r.err = ErrShape
                        ELSE FirstNonObject(ValuesOf(path)) > 0 => r.err = ErrShape

\* C12 amended: a call without an object expression as first argument throws
\* the shape error and stores nothing.  A call whose argument object has a
\* value that is no object expression throws an error: the values before the
\* first such value are processed in source order as if the call ended
\* there; if they are all stored, they stay stored and the error is the
\* shape error, otherwise the error is the one of the first value that failed.
C12_ShapeErrorInSourceOrder ==
    \A u \in Units :
        pc[u] = "visiting" =>
            \A path \in CallNodes :
                IsMarkerCall(path) =>
                    LET r == visitCallExpression(path, opts[u], Messages(u))
                        k == FirstNonObject(ValuesOf(path))
                        before == visitCallExpression(CutAfter(path, k - 1), opts[u],
                                                      Messages(u))
                    IN  IF ~HasMessagesObject(path)
                        THEN r.err = ErrShape /\ r.messages = Messages(u)
                        ELSE k > 0 =>
                                /\ r.err # NoError
                                /\ r.messages = before.messages
                                /\ r.stored = before.stored
                                /\ IF before.err = NoError
                                   THEN r.err = ErrShape /\ Len(r.stored) = k - 1
                                   ELSE r.err = before.err

\* a call stored the descriptor of its first value and threw the shape error
\* at its second
C12_Witness ==
    /\ last["u1"].kind = "call"
    /\ last["u1"].matched
    /\ last["u1"].err = ErrShape
    /\ last["u1"].changed
    /\ pc["u1"] = "aborted"
    /\ Len(Messages("u1")) > 0

(***************************************************************************)
(* Key/value pairs of a marker usage, for C13, C14, C16 and C18.           *)
(***************************************************************************)
RemoveAt(s, i) == SubSeq(s, 1, i - 1) \o SubSeq(s, i + 1, Len(s))

PairsOfAttrs(attributes) ==
    [i \in 1..Len(attributes) |-> <<attributes[i].name, attributes[i].value>>]

PairsOfProps(properties) ==
    [i \in 1..Len(properties) |-> <<properties[i].key, properties[i].value>>]

\* the outcome of the markup usage with these attributes, and of the call
\* with one descriptor object of these properties, at the registry of u
VisitMarkup(u, attributes) ==
    visitJSXOpeningElement(JSXElement(FormattedMessageTag, attributes), opts[u],
                           Messages(u))

VisitCall(u, properties) ==
    visitCallExpression(
        Call(DefineMessagesCallee, <<MessagesObject(<<ObjectExpression(properties)>>)>>),
        opts[u], Messages(u))

KeyNotConfident(key) ==
    key.type \notin {"Identifier", "JSXIdentifier"} /\ ~key.evaluate.confident

ValueNotConfident(value) ==
    IF value.type = "JSXExpressionContainer"
    THEN ~value.expression.evaluate.confident
    ELSE ~value.evaluate.confident

\* descriptor built, error, registry and descriptors stored are the same
SameOutcome(r, q) ==
    /\ r.hash = q.hash
    /\ r.err = q.err
    /\ r.messages = q.messages
    /\ r.stored = q.stored

\* the reduce reaches pair i: no pair before it made the builder throw
Reached(pairs, i, isJSXSource) ==
    createMessageDescriptor(SubSeq(pairs, 1, i - 1), isJSXSource).err = NoError

(***************************************************************************)
(* C13. A pair whose key or value the evaluator cannot fold is dropped:    *)
(* the usage has the outcome of the usage without the pair.                *)
(***************************************************************************)
\* C13 as claimed, for a usage with outcome r and the usage without the
\* pair with outcome q: one warning more, and the same outcome
DroppedWithWarning(r, q, pair) ==
    (KeyNotConfident(pair[1]) \/ ValueNotConfident(pair[2])) =>
        /\ r.warns = q.warns + 1
        /\ SameOutcome(r, q)

\* C13 as claimed: in every list of attributes of a markup marker and of
\* properties of a descriptor object, every pair whose key or whose value
\* cannot be evaluated confidently gives a warning and is dropped, the
\* descriptor built and the outcome of the usage being those of the usage
\* without the pair
C13_NonConstantPairWarns ==
    \A u \in Units :
        pc[u] = "visiting" =>
            /\ \A attributes \in PairAttrLists : \A i \in 1..Len(attributes) :
                  DroppedWithWarning(VisitMarkup(u, attributes),
                                     VisitMarkup(u, RemoveAt(attributes, i)),
                                     PairsOfAttrs(attributes)[i])
            /\ \A properties \in PairPropLists : \A i \in 1..Len(properties) :
                  DroppedWithWarning(VisitCall(u, properties),
                                     VisitCall(u, RemoveAt(properties, i)),
                                     PairsOfProps(properties)[i])

\* the pair is evaluated and found non-constant: the reduce reaches it, and
\* its key cannot be folded, or its key is a descriptor property and its
\* value cannot be folded
EvaluatedNonConstant(pairs, i, isJSXSource) ==
    /\ Reached(pairs, i, isJSXSource)
    /\ \/ KeyNotConfident(pairs[i][1])
       \/ /\ getMessageDescriptorKey(pairs[i][1]).value \in DESCRIPTOR_PROPS
          /\ ValueNotConfident(pairs[i][2])

DroppedWhenEvaluated(r, q, pairs, i, isJSXSource) ==
    (KeyNotConfident(pairs[i][1]) \/ ValueNotConfident(pairs[i][2])) =>
        /\ r.warns = q.warns + (IF EvaluatedNonConstant(pairs, i, isJSXSource)
                                THEN 1 ELSE 0)
        /\ SameOutcome(r, q)

\* C13 amended: every pair whose key or whose value cannot be evaluated
\* confidently is dropped without an error, the descriptor built and the
\* outcome of the usage being those of the usage without the pair; it gives
\* exactly one warning when it is evaluated (its key cannot be evaluated, or
\* its key is a descriptor property and its value cannot, and no default
\* message before it was rejected), and no warning otherwise
C13_NonConstantPairDropped ==
    \A u \in Units :
        pc[u] = "visiting" =>
            /\ \A attributes \in PairAttrLists : \A i \in 1..Len(attributes) :
                  DroppedWhenEvaluated(VisitMarkup(u, attributes),
                                       VisitMarkup(u, RemoveAt(attributes, i)),
                                       PairsOfAttrs(attributes), i, TRUE)
            /\ \A properties \in PairPropLists : \A i \in 1..Len(properties) :
                  DroppedWhenEvaluated(VisitCall(u, properties),
                                       VisitCall(u, RemoveAt(properties, i)),
                                       PairsOfProps(properties), i, FALSE)

\* a usage with a pair that was dropped with a warning stored its descriptor
C13_Witness ==
    /\ last["u1"].matched
    /\ last["u1"].warns > 0
    /\ last["u1"].err = NoError
    /\ last["u1"].changed
    /\ last["u1"].props = {"id", "defaultMessage"}

(***************************************************************************)
(* C14. A pair whose key resolves to a name other than id, description     *)
(* and defaultMessage is ignored silently: the usage gives the descriptor, *)
(* the error, the registry and the number of warnings of the usage         *)
(* without the pair, also when the value of the pair is no compile-time    *)
(* constant, so the value is not evaluated and nothing is thrown for it.   *)
(***************************************************************************)
ResolvesToOtherName(key) ==
    LET name == IF key.type \in {"Identifier", "JSXIdentifier"} THEN key.name
                ELSE IF key.evaluate.confident THEN key.evaluate.value
                ELSE INVALID_VALUE
    IN  name \notin {"id", "description", "defaultMessage", INVALID_VALUE}

C14_OtherPropertiesIgnored ==
    \A u \in Units :
        pc[u] = "visiting" =>
            /\ \A attributes \in PairAttrLists : \A i \in 1..Len(attributes) :
                  ResolvesToOtherName(attributes[i].name) =>
                      VisitMarkup(u, attributes) = VisitMarkup(u, RemoveAt(attributes, i))
            /\ \A properties \in PairPropLists : \A i \in 1..Len(properties) :
                  ResolvesToOtherName(properties[i].key) =>
                      VisitCall(u, properties) = VisitCall(u, RemoveAt(properties, i))

\* a usage with a non-constant value under an unrecognized key stored its
\* descriptor without a warning
C14_Witness ==
    /\ last["u1"].matched
    /\ last["u1"].others
    /\ last["u1"].warns = 0
    /\ last["u1"].err = NoError
    /\ last["u1"].changed

(***************************************************************************)
(* C15. Units are isolated.  The registry of a unit is empty when its      *)
(* traversal starts; under every interleaving of the callbacks of two      *)
(* units the registry of a unit, and the sequence it emits at exit, hold   *)
(* exactly the descriptors its own usages stored; and a descriptor         *)
(* conflicts in a unit only with an entry the unit stored itself, never    *)
(* with one another unit holds under the same id.                          *)
(***************************************************************************)
C15_UnitsIsolated ==
    \A u \in Units :
        /\ (pc[u] = "visiting" /\ last[u].kind = "none") => Messages(u) = <<>>
        /\ Range(Messages(u)) = own[u]
        /\ Len(Messages(u)) = Cardinality(own[u])
        /\ metadata[u].attached =>
              /\ Range(metadata[u].messages) = own[u]
              /\ Len(metadata[u].messages) = Cardinality(own[u])
        /\ files[u].written =>
              /\ Range(files[u].content) = {JSONObject(d) : d \in own[u]}
              /\ Len(files[u].content) = Cardinality(own[u])
        /\ pc[u] = "visiting" =>
              \A d \in CompleteDescriptors :
                  storeMessage(d, opts[u], Messages(u)).err = ErrDuplicate =>
                      \E e \in own[u] : e.id = d.id /\ e # d

\* both units ended without an error, each emitting its own descriptor for
\* the id a, with different default messages
C15_Witness ==
    /\ pc["u1"] = "done" /\ pc["u2"] = "done"
    /\ error["u1"] = NoError /\ error["u2"] = NoError
    /\ \E i \in 1..Len(metadata["u1"].messages) :
          /\ metadata["u1"].messages[i].id = "a"
          /\ metadata["u1"].messages[i].defaultMessage = "Hello"
    /\ \E i \in 1..Len(metadata["u2"].messages) :
          /\ metadata["u2"].messages[i].id = "a"
          /\ metadata["u2"].messages[i].defaultMessage = "Hi {name}"
    /\ Len(metadata["u1"].messages) = 2
    /\ Len(metadata["u2"].messages) = 1

(***************************************************************************)
(* C16. When the message syntax rejects a default message, the error is    *)
(* the escaping error if and only if the usage is a markup usage and the   *)
(* value is a literal whose text holds a backslash sequence (two           *)
(* consecutive backslashes); a function call, a value inside an expression *)
(* container and a text without the sequence give the generic syntax       *)
(* error with the reason of the parser.  In both cases nothing is stored:  *)
(* the registry stays as it was when the building of the descriptor began. *)
(***************************************************************************)
ValueOf(value) ==
    IF value.type = "JSXExpressionContainer"
    THEN value.expression.evaluate.value
    ELSE value.evaluate.value

\* position of the first pair that hands the syntax a default message it
\* rejects, 0 if there is none
RejectedAt(pairs) ==
    LET at == {i \in 1..Len(pairs) :
                  /\ getMessageDescriptorKey(pairs[i][1]).value = "defaultMessage"
                  /\ ~ValueNotConfident(pairs[i][2])
                  /\ ~ICUParses(ValueOf(pairs[i][2]))}
    IN  IF at = {} THEN 0 ELSE CHOOSE i \in at : \A j \in at : i <= j

IsLiteralWithBackslashes(value) ==
    value.type = "StringLiteral" /\ hasBackslashes(value.evaluate.value)

C16_ChoiceOfSyntaxError ==
    \A u \in Units :
        pc[u] = "visiting" =>
            /\ \A attributes \in PairAttrLists :
                  LET k == RejectedAt(PairsOfAttrs(attributes))
                      r == VisitMarkup(u, attributes)
                  IN  k > 0 =>
                        /\ r.err = IF IsLiteralWithBackslashes(attributes[k].value)
                                   THEN ErrParseJSX ELSE ErrParse
                        /\ r.messages = Messages(u)
                        /\ r.stored = <<>>
            /\ \A path \in CallNodesPairs :
                  LET n == Len(ValuesOf(path))
                      k == RejectedAt(PairsOfProps(ValuesOf(path)[n].properties))
                      r == visitCallExpression(path, opts[u], Messages(u))
                      before == visitCallExpression(CutAfter(path, n - 1), opts[u],
                                                    Messages(u))
                  IN  (k > 0 /\ before.err = NoError) =>
                        /\ r.err = ErrParse
                        /\ r.messages = before.messages
                        /\ r.stored = before.stored

\* a markup usage with an id and a literal default message with backslashes
\* that the syntax rejects threw the escaping error and stored nothing
C16_Witness ==
    /\ last["u1"].kind = "jsx"
    /\ last["u1"].err = ErrParseJSX
    /\ last["u1"].props = {"id"}
    /\ ~last["u1"].changed
    /\ pc["u1"] = "aborted"

(***************************************************************************)
(* C17. At every moment every entry of the registry of a unit is the       *)
(* entry found under its own id, has a non-empty id and a non-empty        *)
(* default message and, when descriptions are enforced, a non-empty        *)
(* description; no two entries have the same id.                           *)
(***************************************************************************)
C17_RegistryInvariant ==
    \A u \in Units :
        LET m == Messages(u)
        IN  /\ \A i \in 1..Len(m) :
                  /\ MapHas(m, m[i].id)
                  /\ MapGet(m, m[i].id) = m[i]
                  /\ Truthy(m[i].id)
                  /\ Truthy(m[i].defaultMessage)
                  /\ opts[u].enforceDescriptions => Truthy(m[i].description)
            /\ \A i, j \in 1..Len(m) : m[i].id = m[j].id => i = j

\* descriptions are enforced and the registry holds two entries
C17_Witness ==
    /\ opts["u1"].enforceDescriptions
    /\ pc["u1"] = "visiting"
    /\ Len(Messages("u1")) = 2
    /\ Messages("u1")[1].id # Messages("u1")[2].id
    /\ last["u1"].changed

(***************************************************************************)
(* C18. In a call of a function marker, a descriptor object that yields no *)
(* default message, because it has none, an empty one or only ones that    *)
(* are dropped as non-constant, throws the missing-defaultMessage error    *)
(* when it is processed, and is not stored; the markup usage with the      *)
(* same kind of attributes is skipped without an error.                    *)
(***************************************************************************)
YieldsNoDefaultMessage(pairs) ==
    \A i \in 1..Len(pairs) :
        getMessageDescriptorKey(pairs[i][1]).value = "defaultMessage" =>
            \/ ValueNotConfident(pairs[i][2])
            \/ ~Truthy(ValueOf(pairs[i][2]))

C18_CallNeedsDefaultMessage ==
    \A u \in Units :
        pc[u] = "visiting" =>
            /\ \A path \in CallNodesPairs :
                  LET n == Len(ValuesOf(path))
                      r == visitCallExpression(path, opts[u], Messages(u))
                      before == visitCallExpression(CutAfter(path, n - 1), opts[u],
                                                    Messages(u))
                  IN  (/\ YieldsNoDefaultMessage(PairsOfProps(ValuesOf(path)[n].properties))
                       /\ before.err = NoError) =>
                        /\ r.err = ErrNoDefault
                        /\ r.messages = before.messages
                        /\ r.stored = before.stored
            /\ \A attributes \in PairAttrLists :
                  LET r == VisitMarkup(u, attributes)
                  IN  YieldsNoDefaultMessage(PairsOfAttrs(attributes)) =>
                        /\ r.err = NoError
                        /\ r.messages = Messages(u)
                        /\ r.stored = <<>>

\* a call threw the missing-defaultMessage error for a descriptor object
\* with an id whose default message was dropped as non-constant
C18_Witness ==
    /\ last["u1"].kind = "call"
    /\ last["u1"].err = ErrNoDefault
    /\ last["u1"].warns > 0
    /\ last["u1"].props = {"id"}
    /\ pc["u1"] = "aborted"

====
